---- MODULE Spec2Model ----
(***************************************************************************)
(* A model of the X11 wire codec of AquariWM/x11-libraries:                *)
(*   - the structure-level Serialize / Deserialize pair (src/src/rw/mod.rs)*)
(*     with its String implementation;                                     *)
(*   - the layout compiler that generates write procedures for plain       *)
(*     records, requests, replies and events                               *)
(*     (src/xrbk_macro/src/definition/expansion/writable.rs), run over the *)
(*     definitions of src/src/x11/request/input.rs and                     *)
(*     src/src/x11/reply/meta.rs;                                          *)
(*   - the write and read procedures of enums and the reads of items       *)
(*     (src/xrbk_macro/src/impls.rs), and WarpSourceDimension's own        *)
(*     Readable and Writable (src/src/x11/request/input.rs);               *)
(*   - reads of truncated messages, item writes that return an error, and  *)
(*     ListExtensions (src/src/x11/reply/meta.rs) with more names than its *)
(*     one-byte count can hold.                                            *)
(***************************************************************************)
EXTENDS Integers, Sequences, FiniteSets, TLC

VARIABLES
    wire,     \* the byte slice the caller holds
    buf,      \* the caller-supplied destination of serialize_to: [data, cap]
    last,     \* the last structure-level call and what it returned
    narrow,   \* what WriteValue::write_1b_to does with a value above 255
    def,      \* the Definition handed to the layout compiler
    prog,     \* the write procedure impl_writable generated for def
    value,    \* the message value write_to is running on (field values)
    out,      \* the bytes write_to has put into its buffer so far
    pc,       \* write_to's position: "idle", a statement index, or "done"
    datasize  \* the generated procedure's running byte count

rwvars == <<wire, buf, last, narrow>>
genvars == <<def, prog, value, out, pc, datasize>>
vars == <<wire, buf, last, narrow, def, prog, value, out, pc, datasize>>

----------------------------------------------------------------------------
(* Bounds                                                                  *)

\* longest String, in chars, handed to serialize
MaxLen == 2
\* longest byte slice handed to deserialize_bytes
MaxBytes == 3
\* largest capacity of the destination buffer of serialize_to
MaxCap == 3

\* the chars Strings are built from: 'a', 'b', U+00E9 (two bytes in UTF-8)
\* and U+20AC (three bytes in UTF-8, and a value above 255)
Chars == {97, 98, 233, 8364}
\* the bytes arbitrary input slices are built from: prefixes 0..3, 'a',
\* a UTF-8 continuation byte (0xA9) and a two-byte lead (0xC3)
Bytes == {0, 1, 2, 3, 97, 169, 195}

SeqsUpTo(S, n) == UNION {[1..k -> S] : k \in 0..n}

Strings == SeqsUpTo(Chars, MaxLen)

----------------------------------------------------------------------------
(* Rust's String: a sequence of chars stored as UTF-8                      *)

\* the UTF-8 encoding of one char
Utf8Char(c) ==
    IF c < 128 THEN <<c>>
    ELSE IF c < 2048 THEN <<192 + (c \div 64), 128 + (c % 64)>>
    ELSE IF c < 65536 THEN
        <<224 + (c \div 4096), 128 + ((c \div 64) % 64), 128 + (c % 64)>>
    ELSE <<240 + (c \div 262144), 128 + ((c \div 4096) % 64),
           128 + ((c \div 64) % 64), 128 + (c % 64)>>

RECURSIVE Utf8(_)
\* the bytes of a String (String::as_bytes)
Utf8(s) == IF s = <<>> THEN <<>> ELSE Utf8Char(Head(s)) \o Utf8(Tail(s))

\* String::len: the length in bytes, not in chars
StrLen(s) == Len(Utf8(s))

IsCont(b) == b >= 128 /\ b <= 191

\* Number of bytes of the well-formed UTF-8 sequence at the head of b, 0 when
\* the head of b is not well formed (core::str::from_utf8's validation).
Utf8Width(b) ==
    LET b1 == b[1] IN
    IF b1 < 128 THEN 1
    ELSE IF b1 >= 194 /\ b1 <= 223
        THEN IF Len(b) >= 2 /\ IsCont(b[2]) THEN 2 ELSE 0
    ELSE IF b1 >= 224 /\ b1 <= 239
        THEN IF /\ Len(b) >= 3
                /\ IsCont(b[2]) /\ IsCont(b[3])
                /\ (b1 = 224 => b[2] >= 160)
                /\ (b1 = 237 => b[2] <= 159)
             THEN 3 ELSE 0
    ELSE IF b1 >= 240 /\ b1 <= 244
        THEN IF /\ Len(b) >= 4
                /\ IsCont(b[2]) /\ IsCont(b[3]) /\ IsCont(b[4])
                /\ (b1 = 240 => b[2] >= 144)
                /\ (b1 = 244 => b[2] <= 143)
             THEN 4 ELSE 0
    ELSE 0

\* the char encoded by the first w bytes of b
Utf8Decode(b, w) ==
    IF w = 1 THEN b[1]
    ELSE IF w = 2 THEN (b[1] - 192) * 64 + (b[2] - 128)
    ELSE IF w = 3 THEN (b[1] - 224) * 4096 + (b[2] - 128) * 64 + (b[3] - 128)
    ELSE (b[1] - 240) * 262144 + (b[2] - 128) * 4096
         + (b[3] - 128) * 64 + (b[4] - 128)

Drop(s, n) == SubSeq(s, n + 1, Len(s))
Take(s, n) == SubSeq(s, 1, n)

\* from_utf8 as a lossy conversion would do it: ill-formed input is accepted
\* and replaced by U+FFFD
from_utf8_lossy(b) ==
    [ok |-> TRUE, text |-> IF \A i \in 1..Len(b) : b[i] < 128 THEN b
                           ELSE <<65533>>]

RECURSIVE from_utf8(_)
\* String::from_utf8: [ok |-> TRUE, text |-> the chars] or [ok |-> FALSE]
from_utf8(b) ==
    IF b = <<>> THEN [ok |-> TRUE, text |-> <<>>]
    ELSE LET w == Utf8Width(b) IN
         IF w = 0 THEN [ok |-> FALSE, text |-> <<>>]
         ELSE LET rest == from_utf8(Drop(b, w)) IN
              IF rest.ok
              THEN [ok |-> TRUE, text |-> <<Utf8Decode(b, w)>> \o rest.text]
              ELSE [ok |-> FALSE, text |-> <<>>]

----------------------------------------------------------------------------
(* Results.  Every result is a record [tag, val] so that results compare.  *)

Ok(v) == [tag |-> "Ok", val |-> v]
Err(e) == [tag |-> e, val |-> <<>>]
\* the call did not return: the thread panicked
Panic == [tag |-> "panic", val |-> <<>>]

\* The record of the last call.
\* op: the call; text: the String serialized; ser: TRUE when input is what
\* serialize(text) returned; input, read, slice: the slice handed to
\* deserialize_bytes, the bytes its cursor consumed, the slice afterwards;
\* before: the destination before serialize_to; res: the result;
\* ty, val: the type and the value of a value-level write_to or read_from
\* (for a read_from, the value whose write_to came just before)
NoValue == [variant |-> 0, items |-> <<>>]
NoCall == [op |-> "none", text |-> <<>>, ser |-> FALSE, input |-> <<>>,
           res |-> Ok(<<>>), read |-> 0, slice |-> <<>>, before |-> <<>>,
           ty |-> "", val |-> NoValue]

----------------------------------------------------------------------------
(* WriteValue::write_1b_to (rw/write_value.rs is not part of the source):  *)
(* one byte is written for a value that fits one byte; for a value above   *)
(* 255 the byte is either the value truncated or the call fails, and the   *)
(* model keeps both outcomes (narrow is chosen once, in Init).             *)

write_1b(v, mode) ==
    IF v < 256 THEN Ok(<<v>>)
    ELSE IF mode = "truncate" THEN Ok(<<v % 256>>)
    ELSE Err("WriteError")

RECURSIVE write_chars(_, _)
\* for ch in self.chars() { ch.write_1b_to(&mut bytes)?; }
write_chars(s, mode) ==
    IF s = <<>> THEN Ok(<<>>)
    ELSE LET h == write_1b(Head(s), mode) IN
         IF h.tag # "Ok" THEN h
         ELSE LET t == write_chars(Tail(s), mode) IN
              IF t.tag # "Ok" THEN t ELSE Ok(h.val \o t.val)

\* impl Serialize for String: the length in bytes as one byte, then one
\* byte per char
String_serialize(s, mode) ==
    LET l == write_1b(StrLen(s), mode) IN
    IF l.tag # "Ok" THEN l
    ELSE LET body == write_chars(s, mode) IN
         IF body.tag # "Ok" THEN body ELSE Ok(l.val \o body.val)

----------------------------------------------------------------------------
(* bytes::Buf over a byte slice: get_u8 and copy_to_bytes panic when the   *)
(* slice holds fewer bytes than asked for.                                 *)

\* impl Deserialize for String, run on a cursor over bytes b; the result
\* and the number of bytes the cursor advanced
String_deserialize(b) ==
    IF Len(b) < 1
    THEN [res |-> Panic, pos |-> 0]                      \* buf.get_u8()
    ELSE LET length == b[1] IN
         IF Len(b) - 1 < length
         THEN [res |-> Panic, pos |-> 1]                 \* buf.copy_to_bytes
         ELSE LET body == SubSeq(b, 2, 1 + length)
                  text == from_utf8(body)
              IN [res |-> IF text.ok THEN Ok(text.text)
                          ELSE Err("InvalidData"),
                  pos |-> 1 + length]

\* deserialize_bytes as it would be without the clone: deserialize advances
\* the caller's own slice
deserialize_bytes_no_clone(b) ==
    LET r == String_deserialize(b) IN
    [res |-> r.res, read |-> r.pos, slice |-> Drop(b, r.pos)]

\* Deserialize::deserialize_bytes: deserialize runs on a clone of the slice
\* reference, so the caller's slice keeps its position
deserialize_bytes(b) ==
    LET r == String_deserialize(b) IN
    [res |-> r.res, read |-> r.pos, slice |-> b]

----------------------------------------------------------------------------
(* Serialize::serialize_to on a destination with room for cap bytes        *)

remaining_mut(b) == b.cap - Len(b.data)

\* serialize_to as it would be with the capacity found too low only while
\* writing: the bytes that fit are already in the destination
serialize_to_partial(s, b, mode) ==
    LET data == String_serialize(s, mode) IN
    IF data.tag # "Ok" THEN [res |-> data, buf |-> b]
    ELSE IF remaining_mut(b) < Len(data.val)
    THEN [res |-> Err("CapacityTooLow"),
          buf |-> [b EXCEPT !.data = @ \o Take(data.val, remaining_mut(b))]]
    ELSE [res |-> Ok(<<>>), buf |-> [b EXCEPT !.data = @ \o data.val]]

\* the result of serialize_to(s, b) and the destination afterwards
serialize_to(s, b, mode) ==
    LET data == String_serialize(s, mode) IN
    IF data.tag # "Ok" THEN [res |-> data, buf |-> b]    \* self.serialize()?
    ELSE IF remaining_mut(b) < Len(data.val)
    THEN [res |-> Err("CapacityTooLow"), buf |-> b]
    ELSE [res |-> Ok(<<>>), buf |-> [b EXCEPT !.data = @ \o data.val]]

----------------------------------------------------------------------------
(* The Schema Model: a Definition is a role with an ordered content of     *)
(* elements (fields, lets, unused bytes).                                  *)

\* largest seed the values of a message are derived from
MaxSeed == 2
\* longest list of names in a ListExtensions reply
MaxNames == 2

\* a type whose values take size bytes on the wire; max is the largest value
\* a field of the type is given here (the largest of the type when the type
\* is one byte wide)
TInt(size, max) == [t |-> "int", size |-> size, max |-> max]

bool == TInt(1, 1)
u8 == TInt(1, 255)
u16 == TInt(2, 65535)
Window == TInt(4, 65535)
OptionWindow == TInt(4, 65535)
OptionCursorAppearance == TInt(4, 65535)
FocusWindow == TInt(4, 65535)
CurrentableTime == TInt(4, 65535)
Coords == TInt(4, 65535)
CursorEventMask == TInt(2, 65535)
AnyModifierKeyMask == TInt(2, 65535)
FreezeMode == TInt(1, 1)
AnyButton == TInt(1, 255)
AnyKeycode == TInt(1, 255)
OptionU8 == TInt(1, 255)
\* a token of a discriminant expression: a literal or an operator
Lit(n) == [k |-> "lit", n |-> n, op |-> ""]
Op(o) == [k |-> "op", n |-> 0, op |-> o]

\* a variant of an enum: its name, the tokens of its explicit discriminant
\* (none: the empty sequence) and its items
Variant(ident, discriminant, items) ==
    [ident |-> ident, discriminant |-> discriminant, items |-> items]

\* an enum; as the type of a field it takes one byte, and a field's value is
\* the position of its variant, counted from 0
Enum(name, variants) ==
    [t |-> "enum", size |-> 1, max |-> Len(variants) - 1, name |-> name,
     variants |-> variants]

\* eight unit variants
AllowEventsMode == Enum("AllowEventsMode", <<
    Variant("UnfreezeCursor", <<>>, <<>>),
    Variant("RefreezeCursor", <<>>, <<>>),
    Variant("ReplayCursor", <<>>, <<>>),
    Variant("UnfreezeKeyboard", <<>>, <<>>),
    Variant("RefreezeKeyboard", <<>>, <<>>),
    Variant("ReplayKeyboard", <<>>, <<>>),
    Variant("UnfreezeBoth", <<>>, <<>>),
    Variant("RefreezeBoth", <<>>, <<>>) >>)

\* three unit variants
RevertFocus == Enum("RevertFocus", <<
    Variant("None", <<>>, <<>>),
    Variant("CursorRoot", <<>>, <<>>),
    Variant("Parent", <<>>, <<>>) >>)

\* enum WarpSourceDimension { FillRemaining, Other(u16) }, X11_SIZE = 2,
\* with a Readable and a Writable of its own
WarpSourceDimension ==
    [t |-> "WarpSourceDimension", size |-> 2, max |-> 65535,
     name |-> "WarpSourceDimension"]
FillRemaining == [variant |-> "FillRemaining", n |-> 0]
Other(n) == [variant |-> "Other", n |-> n]
\* Vec<LengthString8>: each name is one length byte and its bytes
VecLengthString8 == [t |-> "names", size |-> 0, max |-> 0]

\* the formula of a Let or of an unused array: fn over the element named of
Source(fn, of, n) == [fn |-> fn, of |-> of, n |-> n]
NoSource == Source("none", "", 0)

Field(name, ty) ==
    [kind |-> "Field", name |-> name, ty |-> ty, metabyte |-> FALSE,
     sequence |-> FALSE, source |-> NoSource, context |-> NoSource]

\* let name: ty = of => fn(of)
LetElement(name, ty, source) ==
    [kind |-> "Let", name |-> name, ty |-> ty, metabyte |-> FALSE,
     sequence |-> FALSE, source |-> source, context |-> NoSource]

\* `_`: one unused byte
UnusedUnit ==
    [kind |-> "Unused", name |-> "_", ty |-> u8, metabyte |-> FALSE,
     sequence |-> FALSE, source |-> Source("unit", "", 1),
     context |-> NoSource]

\* `[_; source]`: a run of unused bytes
UnusedArray(source) ==
    [kind |-> "Unused", name |-> "_", ty |-> u8, metabyte |-> FALSE,
     sequence |-> FALSE, source |-> source, context |-> NoSource]

\* #[metabyte]
Metabyte(e) == [e EXCEPT !.metabyte = TRUE]
\* #[sequence]
Sequence(e) == [e EXCEPT !.sequence = TRUE]
\* #[context(of => fn(of))]
Context(e, source) == [e EXCEPT !.context = source]

None == -1

Struct(name, content) ==
    [name |-> name, role |-> "Struct", code |-> 0, minor |-> None,
     content |-> content]
Request(name, major, minor, content) ==
    [name |-> name, role |-> "Request", code |-> major, minor |-> minor,
     content |-> content]
Reply(name, content) ==
    [name |-> name, role |-> "Reply", code |-> 0, minor |-> None,
     content |-> content]
Event(name, code, content) ==
    [name |-> name, role |-> "Event", code |-> code, minor |-> None,
     content |-> content]

NoDef == [name |-> "", role |-> "None", code |-> 0, minor |-> None,
          content |-> <<>>]

----------------------------------------------------------------------------
(* The Requests of x11/request/input.rs                                    *)

GrabCursor == Request("GrabCursor", 26, None, <<
    Metabyte(Field("owner_events", bool)),
    Field("grab_window", Window),
    Field("event_mask", CursorEventMask),
    Field("cursor_freeze", FreezeMode),
    Field("keyboard_freeze", FreezeMode),
    Field("confine_to", OptionWindow),
    Field("cursor_appearance", OptionCursorAppearance),
    Field("time", CurrentableTime) >>)

UngrabCursor == Request("UngrabCursor", 27, None, <<
    Field("time", CurrentableTime) >>)

GrabButton == Request("GrabButton", 28, None, <<
    Metabyte(Field("owner_events", bool)),
    Field("grab_window", Window),
    Field("event_mask", CursorEventMask),
    Field("cursor_freeze", FreezeMode),
    Field("keyboard_freeze", FreezeMode),
    Field("confine_to", OptionWindow),
    Field("cursor_appearance", OptionCursorAppearance),
    Field("button", AnyButton),
    UnusedUnit,
    Field("modifiers", AnyModifierKeyMask) >>)

UngrabButton == Request("UngrabButton", 29, None, <<
    Metabyte(Field("button", AnyButton)),
    Field("grab_window", Window),
    Field("modifiers", AnyModifierKeyMask),
    UnusedArray(Source("const", "", 2)) >>)

ChangeActiveCursorGrab == Request("ChangeActiveCursorGrab", 30, None, <<
    Field("cursor_appearance", OptionCursorAppearance),
    Field("time", CurrentableTime),
    Field("event_mask", CursorEventMask),
    UnusedArray(Source("const", "", 2)) >>)

GrabKeyboard == Request("GrabKeyboard", 31, None, <<
    Metabyte(Field("owner_events", bool)),
    Field("grab_window", Window),
    Field("time", CurrentableTime),
    Field("cursor_freeze", FreezeMode),
    Field("keyboard_freeze", FreezeMode),
    UnusedArray(Source("const", "", 2)) >>)

UngrabKeyboard == Request("UngrabKeyboard", 32, None, <<
    Field("time", CurrentableTime) >>)

GrabKey == Request("GrabKey", 33, None, <<
    Metabyte(Field("owner_events", bool)),
    Field("grab_window", Window),
    Field("modifiers", AnyModifierKeyMask),
    Field("key", AnyKeycode),
    Field("cursor_freeze", FreezeMode),
    Field("keyboard_freeze", FreezeMode),
    UnusedArray(Source("const", "", 3)) >>)

UngrabKey == Request("UngrabKey", 34, None, <<
    Metabyte(Field("key", AnyKeycode)),
    Field("grab_window", Window),
    Field("modifiers", AnyModifierKeyMask),
    UnusedArray(Source("const", "", 2)) >>)

AllowEvents == Request("AllowEvents", 35, None, <<
    Metabyte(Field("mode", AllowEventsMode)),
    Field("time", CurrentableTime) >>)

GrabServer == Request("GrabServer", 36, None, << >>)

UngrabServer == Request("UngrabServer", 37, None, << >>)

QueryCursorLocation == Request("QueryCursorLocation", 38, None, <<
    Field("target", Window) >>)

GetMotionHistory == Request("GetMotionHistory", 39, None, <<
    Field("target", Window),
    Field("start", CurrentableTime),
    Field("end", CurrentableTime) >>)

ConvertCoordinates == Request("ConvertCoordinates", 40, None, <<
    Field("original", Window),
    Field("output", Window),
    Field("original_coords", Coords) >>)

WarpCursor == Request("WarpCursor", 41, None, <<
    Field("source", OptionWindow),
    Field("destination", OptionWindow),
    Field("source_coords", Coords),
    Field("source_width", WarpSourceDimension),
    Field("source_height", WarpSourceDimension),
    Field("coords", Coords) >>)

SetFocus == Request("SetFocus", 42, None, <<
    Metabyte(Field("revert_to", RevertFocus)),
    Field("new_focus", FocusWindow),
    Field("time", CurrentableTime) >>)

GetFocus == Request("GetFocus", 43, None, << >>)

QueryKeyboard == Request("QueryKeyboard", 44, None, << >>)

InputRequests ==
    {GrabCursor, UngrabCursor, GrabButton, UngrabButton,
     ChangeActiveCursorGrab, GrabKeyboard, UngrabKeyboard, GrabKey,
     UngrabKey, AllowEvents, GrabServer, UngrabServer, QueryCursorLocation,
     GetMotionHistory, ConvertCoordinates, WarpCursor, SetFocus, GetFocus,
     QueryKeyboard}

----------------------------------------------------------------------------
(* The Replies of x11/reply/meta.rs                                        *)

QueryExtension == Reply("QueryExtension", <<
    Sequence(Field("sequence", u16)),
    Field("present", bool),
    Field("major_opcode", OptionU8),
    Field("first_event_code", OptionU8),
    Field("first_error_code", OptionU8) >>)

\* ListExtensions as it would be with the unused bytes that pad the names
\* declared before the names
ListExtensions_padding_first == Reply("ListExtensions", <<
    Sequence(Field("sequence", u16)),
    Metabyte(LetElement("names_len", u8, Source("len", "names", 0))),
    UnusedArray(Source("const", "", 24)),
    UnusedArray(Source("pad", "names", 0)),
    Context(Field("names", VecLengthString8),
            Source("from", "names_len", 0)) >>)

\* ListExtensions as it would be without its last element, the unused bytes
\* that pad the names
ListExtensions_no_padding == Reply("ListExtensions", <<
    Sequence(Field("sequence", u16)),
    Metabyte(LetElement("names_len", u8, Source("len", "names", 0))),
    UnusedArray(Source("const", "", 24)),
    Context(Field("names", VecLengthString8),
            Source("from", "names_len", 0)) >>)

ListExtensions == Reply("ListExtensions", <<
    Sequence(Field("sequence", u16)),
    Metabyte(LetElement("names_len", u8, Source("len", "names", 0))),
    UnusedArray(Source("const", "", 24)),
    Context(Field("names", VecLengthString8),
            Source("from", "names_len", 0)),
    UnusedArray(Source("pad", "names", 0)) >>)

MetaReplies == {QueryExtension, ListExtensions}

----------------------------------------------------------------------------
(* Further Definitions the layout compiler accepts, one for each way its   *)
(* branches can be taken: a minor opcode, events with and without a        *)
(* sequence field, a plain record, an inferred unused run.                 *)

\* a Request of an extension: it has a minor opcode
ExtensionRequest == Request("ExtensionRequest", 128, 5, <<
    Field("window", Window) >>)

\* a Request of an extension that also marks a field #[metabyte]
ExtensionRequestMetabyte == Request("ExtensionRequestMetabyte", 129, 6, <<
    Metabyte(Field("mode", u8)),
    Field("window", Window) >>)

\* an Event with a sequence field and a metabyte field
DetailEvent == Event("DetailEvent", 2, <<
    Metabyte(Field("detail", u8)),
    Sequence(Field("sequence", u16)),
    Field("time", CurrentableTime),
    Field("root", Window),
    UnusedArray(Source("const", "", 20)) >>)

\* an Event with a sequence field and no metabyte field
PlainEvent == Event("PlainEvent", 12, <<
    Sequence(Field("sequence", u16)),
    Field("window", Window),
    UnusedArray(Source("const", "", 24)) >>)

\* an Event without a sequence field
KeysEvent == Event("KeysEvent", 11, <<
    Field("first", u8),
    Field("rest", u16),
    UnusedArray(Source("const", "", 28)) >>)

\* an Event without a sequence field that marks a field #[metabyte]
KeysEventMetabyte == Event("KeysEventMetabyte", 13, <<
    Metabyte(Field("detail", u8)),
    Field("rest", u16),
    UnusedArray(Source("const", "", 28)) >>)

\* a plain record
Point == Struct("Point", <<
    Field("x", u16),
    Field("y", u16) >>)

\* a plain record with a list and an inferred unused run `[_; ..]`
NameList == Struct("NameList", <<
    LetElement("names_len", u8, Source("len", "names", 0)),
    Context(Field("names", VecLengthString8),
            Source("from", "names_len", 0)),
    UnusedArray(Source("infer", "", 0)) >>)

\* a Request with an inferred unused run
NamesRequest == Request("NamesRequest", 130, None, <<
    Metabyte(LetElement("names_len", u8, Source("len", "names", 0))),
    Context(Field("names", VecLengthString8),
            Source("from", "names_len", 0)),
    UnusedArray(Source("infer", "", 0)) >>)

\* a Reply with an inferred unused run
NamesReply == Reply("NamesReply", <<
    Sequence(Field("sequence", u16)),
    Metabyte(LetElement("names_len", u8, Source("len", "names", 0))),
    UnusedArray(Source("const", "", 24)),
    Context(Field("names", VecLengthString8),
            Source("from", "names_len", 0)),
    UnusedArray(Source("infer", "", 0)) >>)

\* an Event with a sequence field and an inferred unused run
NamesEvent == Event("NamesEvent", 14, <<
    Metabyte(LetElement("names_len", u8, Source("len", "names", 0))),
    Sequence(Field("sequence", u16)),
    Context(Field("names", VecLengthString8),
            Source("from", "names_len", 0)),
    UnusedArray(Source("infer", "", 0)) >>)

\* an Event without a sequence field, with an inferred unused run
NamesKeysEvent == Event("NamesKeysEvent", 15, <<
    LetElement("names_len", u8, Source("len", "names", 0)),
    Context(Field("names", VecLengthString8),
            Source("from", "names_len", 0)),
    UnusedArray(Source("infer", "", 0)) >>)

\* an enum with an explicit discriminant given as a literal
OverrideEnum == Enum("OverrideEnum", <<
    Variant("First", <<>>, <<>>),
    Variant("Fifth", <<Lit(5)>>, <<>>),
    Variant("Sixth", <<>>, <<>>) >>)

\* an enum with an explicit discriminant given as an expression: `1 << 2`
ShiftEnum == Enum("ShiftEnum", <<
    Variant("Four", <<Lit(1), Op("<<"), Lit(2)>>, <<>>),
    Variant("Next", <<>>, <<>>) >>)

\* an enum with a variant that has an item
PayloadEnum == Enum("PayloadEnum", <<
    Variant("Unit", <<>>, <<>>),
    Variant("Byte", <<>>, <<Field("n", u8)>>) >>)

\* an enum whose last discriminant does not fit one byte: 255 + 1
WrapEnum == Enum("WrapEnum", <<
    Variant("Zero", <<>>, <<>>),
    Variant("Last", <<Lit(255)>>, <<>>),
    Variant("Wrapped", <<>>, <<>>) >>)

Enums ==
    {RevertFocus, AllowEventsMode, OverrideEnum, ShiftEnum, PayloadEnum,
     WrapEnum}

OtherDefinitions ==
    {ExtensionRequest, ExtensionRequestMetabyte, DetailEvent, PlainEvent,
     KeysEvent, KeysEventMetabyte, Point, NameList, NamesRequest,
     NamesReply, NamesEvent, NamesKeysEvent}

\* Definition::Enum: an enum as a Definition handed to the layout compiler
EnumDefinition(e) ==
    [name |-> e.name, role |-> "Enum", code |-> 0, minor |-> None,
     content |-> <<>>]

EnumDefinitions == {EnumDefinition(e) : e \in Enums}

Definitions ==
    InputRequests \cup MetaReplies \cup OtherDefinitions \cup EnumDefinitions


----------------------------------------------------------------------------
(* Values and their encodings                                              *)

Zeros(n) == [i \in 1..n |-> 0]

RECURSIVE BE(_, _)
\* the big-endian encoding of n in k bytes (BufMut::put_u16, put_u32)
BE(n, k) == IF k = 0 THEN <<>> ELSE BE(n \div 256, k - 1) \o <<n % 256>>

RECURSIVE NamesBytes(_)
\* the encoding of a Vec<LengthString8>: the names one after the other.
\* (The list is halved at each step only to keep the evaluation shallow.)
NamesBytes(names) ==
    IF names = <<>> THEN <<>>
    ELSE IF Len(names) = 1 THEN <<Len(names[1])>> \o names[1]
    ELSE NamesBytes(SubSeq(names, 1, Len(names) \div 2))
         \o NamesBytes(SubSeq(names, (Len(names) \div 2) + 1, Len(names)))

\* the index of the element called name
IndexOf(content, name) ==
    CHOOSE i \in 1..Len(content) : content[i].name = name

\* xrbk::pad: the bytes missing to the next multiple of 4
pad(n) == (4 - (n % 4)) % 4

\* what a read does when the buffer holds fewer bytes than it asks for:
\* bytes::Buf panics, a checked reader returns an error
ShortReads == {"panic", "ReadError"}
ShortRead(short) == IF short = "panic" THEN Panic ELSE Err("ReadError")

RECURSIVE FromBE(_, _, _)
\* the big-endian number in the k bytes of b after position pos
\* (Buf::get_u8, get_u16, get_u32)
FromBE(b, pos, k) ==
    IF k = 0 THEN 0 ELSE FromBE(b, pos, k - 1) * 256 + b[pos + k]

\* <T as Readable>::read_from for an integer of size bytes, on the bytes of
\* b after position pos
ReadInt(b, pos, size, short) ==
    IF Len(b) - pos < size THEN [res |-> ShortRead(short), pos |-> pos]
    ELSE [res |-> Ok(FromBE(b, pos, size)), pos |-> pos + size]

RECURSIVE AddEval(_)
\* the value of literals joined by `+`
AddEval(toks) ==
    IF toks = <<>> THEN 0
    ELSE IF Head(toks).k = "lit" THEN Head(toks).n + AddEval(Tail(toks))
    ELSE AddEval(Tail(toks))

RECURSIVE Eval(_)
\* the value rustc gives the tokens of a discriminant expression: `+` binds
\* tighter than `<<`, and both associate to the left
Eval(toks) ==
    LET shifts == {i \in 1..Len(toks) :
                      toks[i].k = "op" /\ toks[i].op = "<<"}
    IN IF shifts = {} THEN AddEval(toks)
       ELSE LET j == CHOOSE i \in shifts : \A h \in shifts : h <= i
            IN Eval(SubSeq(toks, 1, j - 1))
                  * (2 ^ AddEval(SubSeq(toks, j + 1, Len(toks))))

RECURSIVE discrims(_, _, _)
\* the loop over the variants in Enum::serialize_tokens and in
\* Enum::deserialize_tokens: the discriminant tokens of variant i and of
\* those after it; discrim is `0` at first, an explicit discriminant
\* replaces it, and ` + 1` is appended to it after every variant
discrims(variants, i, discrim) ==
    IF i > Len(variants) THEN <<>>
    ELSE LET d == IF variants[i].discriminant # <<>>
                  THEN variants[i].discriminant ELSE discrim
         IN <<d>> \o discrims(variants, i + 1, d \o <<Op("+"), Lit(1)>>)

\* the discriminant tokens of the arms of the generated write_to
serialize_discrims(e) == discrims(e.variants, 1, <<Lit(0)>>)

\* the discriminant tokens of the arms of the generated read_from as they
\* would be with the count started at 1
deserialize_discrims_from_one(e) == discrims(e.variants, 1, <<Lit(1)>>)

\* the discriminant tokens of the arms of the generated read_from
deserialize_discrims(e) == discrims(e.variants, 1, <<Lit(0)>>)

RECURSIVE IntItemsBytes(_, _)
\* the items of a variant, written one after the other
IntItemsBytes(items, vals) ==
    IF items = <<>> THEN <<>>
    ELSE BE(Head(vals), Head(items).ty.size)
         \o IntItemsBytes(Tail(items), Tail(vals))

\* the write_to generated for enum e, on the value v: the arm of v's
\* variant writes ((discrim) as u8) and then the variant's items
Enum_write_to(e, v) ==
    Ok(<<Eval(serialize_discrims(e)[v.variant]) % 256>>
       \o IntItemsBytes(e.variants[v.variant].items, v.items))

RECURSIVE ReadIntItems(_, _, _, _, _)
\* the items of a variant, read one after the other; the first failure
\* ends the read
ReadIntItems(items, b, pos, short, sofar) ==
    IF items = <<>> THEN [res |-> Ok(sofar), pos |-> pos]
    ELSE LET r == ReadInt(b, pos, Head(items).ty.size, short) IN
         IF r.res.tag # "Ok" THEN r
         ELSE ReadIntItems(Tail(items), b, r.pos, short,
                           Append(sofar, r.res.val))

\* the read_from generated for enum e, on the bytes b: one byte is read and
\* matched against the arms in declared order; no arm matching, the
\* wildcard arm panics
Enum_read_from(e, b, short) ==
    LET d == ReadInt(b, 0, 1, short) IN
    IF d.res.tag # "Ok" THEN d
    ELSE LET arms == deserialize_discrims(e)
             matching == {i \in 1..Len(arms) : Eval(arms[i]) = d.res.val}
         IN IF matching = {}
            THEN [res |-> Panic, pos |-> 1]
            ELSE LET i == CHOOSE m \in matching : \A h \in matching : m <= h
                     r == ReadIntItems(e.variants[i].items, b, 1, short, <<>>)
                 IN IF r.res.tag # "Ok" THEN r
                    ELSE [res |-> Ok([variant |-> i, items |-> r.res.val]),
                          pos |-> r.pos]

\* ConstantX11Size / X11Size for WarpSourceDimension
WarpSourceDimension_x11_size(v) == 2

\* Writable for WarpSourceDimension as it would be with a byte telling the
\* variants apart
WarpSourceDimension_write_to_tagged(v) ==
    IF v.variant = "FillRemaining" THEN Ok(<<0>> \o BE(0, 2))
    ELSE Ok(<<1>> \o BE(v.n, 2))

\* Writable for WarpSourceDimension
WarpSourceDimension_write_to(v) ==
    IF v.variant = "FillRemaining" THEN Ok(BE(0, 2))     \* buf.put_u16(0)
    ELSE Ok(BE(v.n, 2))                                  \* other.write_to

\* Readable for WarpSourceDimension: buf.get_u16() panics on a short buffer
WarpSourceDimension_read_from(b) ==
    IF Len(b) < 2 THEN [res |-> Panic, pos |-> 0]
    ELSE LET n == FromBE(b, 0, 2) IN
         [res |-> Ok(IF n = 0 THEN FillRemaining ELSE Other(n)), pos |-> 2]

\* the encoding of the value x of a Field of type ty
FieldBytes(ty, x) ==
    IF ty.t = "names" THEN NamesBytes(x)
    ELSE IF ty.t = "enum"
        THEN Enum_write_to(ty, [variant |-> x + 1, items |-> <<>>]).val
    ELSE IF ty.t = "WarpSourceDimension"
        THEN WarpSourceDimension_write_to(x).val
    ELSE BE(x, ty.size)

\* the value of a Source formula over the sibling fields v and the running
\* byte count ds
EvalSource(source, content, v, ds) ==
    IF source.fn = "const" THEN source.n
    ELSE IF source.fn = "unit" THEN 1
    ELSE IF source.fn = "len"                  \* names.len() as u8
        THEN Len(v[IndexOf(content, source.of)]) % 256
    ELSE IF source.fn = "pad"                  \* pad(names)
        THEN pad(Len(NamesBytes(v[IndexOf(content, source.of)])))
    ELSE IF source.fn = "infer" THEN pad(ds)
    ELSE 0

\* the bytes element.serialize writes for element i of content
ElementBytes(content, i, v, ds) ==
    LET e == content[i] IN
    IF e.kind = "Field" THEN FieldBytes(e.ty, v[i])
    ELSE IF e.kind = "Let"
        THEN BE(EvalSource(e.source, content, v, ds), e.ty.size)
    ELSE Zeros(EvalSource(e.source, content, v, ds))

RECURSIVE SumSizes(_, _, _, _)
\* the bytes of the elements from i on that are not placed in the header;
\* an inferred run pads what precedes it
SumSizes(content, i, v, sofar) ==
    IF i > Len(content) THEN sofar
    ELSE IF content[i].metabyte \/ content[i].sequence
        THEN SumSizes(content, i + 1, v, sofar)
    ELSE SumSizes(content, i + 1, v,
                  sofar + Len(ElementBytes(content, i, v, sofar)))

\* X11Size::x11_size of a message: its header and the elements outside it
x11_size(d, v) ==
    LET header == IF d.role = "Request" THEN 4
                  ELSE IF d.role = "Reply" THEN 8
                  ELSE IF d.role = "Event"
                      THEN IF \E i \in 1..Len(d.content) :
                                  d.content[i].sequence THEN 4 ELSE 1
                  ELSE 0
    IN SumSizes(d.content, 1, v, header)

\* Request::length: the size, header included, in 4-byte units, as u16
Request_length(d, v) == (x11_size(d, v) \div 4) % 65536

\* Reply::length: the 4-byte units beyond the first 32 bytes.  For a size
\* below 32 the result is negative here and stands for the u32 it wraps to:
\* BE writes its two's-complement bytes.
Reply_length(d, v) == (x11_size(d, v) - 32) \div 4

\* the value of a Field for a seed: zero for seed 0, otherwise a value of
\* its own for each field
SeedValue(ty, i, seed) ==
    IF seed = 0 THEN 0
    ELSE IF ty.max < 256 THEN ((seed + i - 2) % ty.max) + 1
    ELSE seed * 256 + i

Names == {<<>>, <<97>>, <<97, 98>>}
NamesVals == SeqsUpTo(Names, MaxNames)

\* the values of Definition d handed to write_to
Values(d) ==
    {[i \in 1..Len(d.content) |->
        IF d.content[i].kind # "Field" THEN 0
        ELSE IF d.content[i].ty.t = "names" THEN names
        ELSE IF d.content[i].ty.t = "WarpSourceDimension"
            THEN IF seed = 0 THEN FillRemaining
                 ELSE Other(SeedValue(d.content[i].ty, i, seed))
        ELSE SeedValue(d.content[i].ty, i, seed)] :
     seed \in 0..MaxSeed, names \in NamesVals}

----------------------------------------------------------------------------
(* The layout compiler: impl_writable generates the statements of write_to *)

Stmt(op, i) == [op |-> op, i |-> i]

\* content.contains_infer()
contains_infer(content) ==
    \E i \in 1..Len(content) : content[i].source.fn = "infer"

\* content.metabyte_element(): the index of the #[metabyte] element, or 0
metabyte_element(content) ==
    IF \E i \in 1..Len(content) : content[i].metabyte
    THEN CHOOSE i \in 1..Len(content) :
            /\ content[i].metabyte
            /\ \A j \in 1..(i - 1) : ~content[j].metabyte
    ELSE 0

\* content.sequence_element(): the index of the #[sequence] element, or 0
sequence_element(content) ==
    IF \E i \in 1..Len(content) : content[i].sequence
    THEN CHOOSE i \in 1..Len(content) :
            /\ content[i].sequence
            /\ \A j \in 1..(i - 1) : ~content[j].sequence
    ELSE 0

\* declare_datasize as it would be with the header left out of the count:
\* let mut datasize: usize = 0
declare_datasize_zero(content, n) ==
    IF contains_infer(content) THEN <<Stmt("declare_datasize", 0)>> ELSE <<>>

\* let mut datasize: usize = n; only with an inferred element
declare_datasize(content, n) ==
    IF contains_infer(content) THEN <<Stmt("declare_datasize", n)>> ELSE <<>>

RECURSIVE writes(_, _, _)
\* the loop `for element in content`: the body elements in declared order,
\* each followed by its datasize statement when the content infers a size;
\* with skip, the #[metabyte] and #[sequence] elements are left out
writes(content, i, skip) ==
    IF i > Len(content) THEN <<>>
    ELSE (IF skip /\ (content[i].metabyte \/ content[i].sequence) THEN <<>>
          ELSE <<Stmt("element", i)>>
               \o (IF contains_infer(content)
                   THEN <<Stmt("add_datasize", i)>> ELSE <<>>))
         \o writes(content, i + 1, skip)

Struct_impl_writable(d) ==
    Ok(declare_datasize(d.content, 0) \o writes(d.content, 1, FALSE))

\* Request::impl_writable as it would be with the length put before the
\* metabyte position
Request_impl_writable_length_first(d) ==
    LET metabyte ==
            IF d.minor # None THEN <<Stmt("put_minor_opcode", 0)>>
            ELSE IF metabyte_element(d.content) # 0
                THEN <<Stmt("element", metabyte_element(d.content))>>
            ELSE <<Stmt("put_zero", 0)>>
    IN Ok(declare_datasize(d.content, 4)
          \o <<Stmt("put_major_opcode", 0)>>
          \o <<Stmt("put_length_u16", 0)>>
          \o metabyte
          \o writes(d.content, 1, TRUE))

\* Request::impl_writable as it would be without the is_metabyte test in
\* its loop: the metabyte element is written in the body too
Request_impl_writable_no_skip(d) ==
    LET metabyte ==
            IF d.minor # None THEN <<Stmt("put_minor_opcode", 0)>>
            ELSE IF metabyte_element(d.content) # 0
                THEN <<Stmt("element", metabyte_element(d.content))>>
            ELSE <<Stmt("put_zero", 0)>>
    IN Ok(declare_datasize(d.content, 4)
          \o <<Stmt("put_major_opcode", 0)>>
          \o metabyte
          \o <<Stmt("put_length_u16", 0)>>
          \o writes(d.content, 1, FALSE))

\* Request::impl_writable as it would be with the #[metabyte] element
\* taking the metabyte position before the minor opcode does
Request_impl_writable_metabyte_first(d) ==
    LET metabyte ==
            IF metabyte_element(d.content) # 0
            THEN <<Stmt("element", metabyte_element(d.content))>>
            ELSE IF d.minor # None THEN <<Stmt("put_minor_opcode", 0)>>
            ELSE <<Stmt("put_zero", 0)>>
    IN Ok(declare_datasize(d.content, 4)
          \o <<Stmt("put_major_opcode", 0)>>
          \o metabyte
          \o <<Stmt("put_length_u16", 0)>>
          \o writes(d.content, 1, TRUE))

Request_impl_writable(d) ==
    LET metabyte ==
            IF d.minor # None THEN <<Stmt("put_minor_opcode", 0)>>
            ELSE IF metabyte_element(d.content) # 0
                THEN <<Stmt("element", metabyte_element(d.content))>>
            ELSE <<Stmt("put_zero", 0)>>
    IN Ok(declare_datasize(d.content, 4)
          \o <<Stmt("put_major_opcode", 0)>>
          \o metabyte
          \o <<Stmt("put_length_u16", 0)>>
          \o writes(d.content, 1, TRUE))

\* Reply::impl_writable as it would be with the metabyte position always 0
Reply_impl_writable_zero_metabyte(d) ==
    LET s == sequence_element(d.content)
    IN IF s = 0 \/ d.content[s].kind # "Field"
       THEN Panic
       ELSE Ok(declare_datasize(d.content, 8)
               \o <<Stmt("put_one", 0)>>
               \o <<Stmt("put_zero", 0)>>
               \o <<Stmt("sequence", s)>>
               \o <<Stmt("put_length_u32", 0)>>
               \o writes(d.content, 1, TRUE))

\* Reply::impl_writable as it would be with the length put before the
\* sequence field
Reply_impl_writable_length_first(d) ==
    LET metabyte ==
            IF metabyte_element(d.content) # 0
            THEN <<Stmt("element", metabyte_element(d.content))>>
            ELSE <<Stmt("put_zero", 0)>>
        s == sequence_element(d.content)
    IN IF s = 0 \/ d.content[s].kind # "Field"
       THEN Panic
       ELSE Ok(declare_datasize(d.content, 8)
               \o <<Stmt("put_one", 0)>>
               \o metabyte
               \o <<Stmt("put_length_u32", 0)>>
               \o <<Stmt("sequence", s)>>
               \o writes(d.content, 1, TRUE))

Reply_impl_writable(d) ==
    LET metabyte ==
            IF metabyte_element(d.content) # 0
            THEN <<Stmt("element", metabyte_element(d.content))>>
            ELSE <<Stmt("put_zero", 0)>>
        s == sequence_element(d.content)
    IN IF s = 0 \/ d.content[s].kind # "Field"
       THEN Panic           \* "replies must have a sequence field"
       ELSE Ok(declare_datasize(d.content, 8)
               \o <<Stmt("put_one", 0)>>
               \o metabyte
               \o <<Stmt("sequence", s)>>
               \o <<Stmt("put_length_u32", 0)>>
               \o writes(d.content, 1, TRUE))

\* Event::impl_writable as it would be with the metabyte position written
\* whether or not there is a sequence field
Event_impl_writable_always_metabyte(d) ==
    LET s == sequence_element(d.content)
        metabyte ==
            IF metabyte_element(d.content) # 0
            THEN <<Stmt("element", metabyte_element(d.content))>>
            ELSE <<Stmt("put_zero", 0)>>
        sequence ==
            IF s # 0 /\ d.content[s].kind = "Field"
            THEN <<Stmt("sequence", s)>> ELSE <<>>
    IN Ok(declare_datasize(d.content, IF s # 0 THEN 4 ELSE 1)
          \o <<Stmt("put_code", 0)>>
          \o metabyte
          \o sequence
          \o writes(d.content, 1, TRUE))

Event_impl_writable(d) ==
    LET s == sequence_element(d.content)
        metabyte ==
            IF s = 0 THEN <<>>
            ELSE IF metabyte_element(d.content) # 0
                THEN <<Stmt("element", metabyte_element(d.content))>>
            ELSE <<Stmt("put_zero", 0)>>
        sequence ==
            IF s # 0 /\ d.content[s].kind = "Field"
            THEN <<Stmt("sequence", s)>> ELSE <<>>
    IN Ok(declare_datasize(d.content, IF s # 0 THEN 4 ELSE 1)
          \o <<Stmt("put_code", 0)>>
          \o metabyte
          \o sequence
          \o writes(d.content, 1, TRUE))

Metadata_impl_writable(d) ==
    IF d.role = "Struct" THEN Struct_impl_writable(d)
    ELSE IF d.role = "Request" THEN Request_impl_writable(d)
    ELSE IF d.role = "Reply" THEN Reply_impl_writable(d)
    ELSE Event_impl_writable(d)

Definition_impl_writable(d) ==
    IF d.role \in {"Struct", "Request", "Reply", "Event"}
    THEN Metadata_impl_writable(d)
    ELSE IF d.role = "Enum" THEN Panic          \* todo!()
    ELSE Ok(<<>>)

----------------------------------------------------------------------------
(* Running the generated write_to, one statement at a time                 *)

\* the bytes the interpolated `#sequence` puts into the buffer: the sequence
\* field, as the header layout has it
SequenceBytes(d, i, v) == FieldBytes(d.content[i].ty, v[i])

\* the bytes statement s puts into the buffer
StmtBytes(s, d, v, ds) ==
    IF s.op = "put_major_opcode" THEN <<d.code>>
    ELSE IF s.op = "put_minor_opcode" THEN <<d.minor>>
    ELSE IF s.op = "put_code" THEN <<d.code>>
    ELSE IF s.op = "put_zero" THEN <<0>>
    ELSE IF s.op = "put_one" THEN <<1>>
    ELSE IF s.op = "put_length_u16" THEN BE(Request_length(d, v), 2)
    ELSE IF s.op = "put_length_u32" THEN BE(Reply_length(d, v), 4)
    ELSE IF s.op = "element" THEN ElementBytes(d.content, s.i, v, ds)
    ELSE IF s.op = "sequence" THEN SequenceBytes(d, s.i, v)
    ELSE <<>>

\* the running byte count after statement s
StmtDatasize(s, d, v, ds) ==
    IF s.op = "declare_datasize" THEN s.i
    ELSE IF s.op = "add_datasize"
        THEN ds + Len(ElementBytes(d.content, s.i, v, ds))
    ELSE ds

\* a byte in the buffer, with the statement that put it there
Put(b, s) == [byte |-> b, op |-> s.op, i |-> s.i]

GenIdle ==
    /\ def = NoDef
    /\ prog = Ok(<<>>)
    /\ value = <<>>
    /\ out = <<>>
    /\ pc = 0
    /\ datasize = 0

\* the derive macro expands Definition d: impl_writable runs once, before
\* any write_to
Derive(d) ==
    /\ def = NoDef
    /\ def' = d
    /\ prog' = Definition_impl_writable(d)
    /\ UNCHANGED <<value, out, pc, datasize, rwvars>>

\* write_to(&self, buf) is called on a value of the Definition, with an
\* empty buffer
WriteTo(v) ==
    /\ def # NoDef
    /\ prog.tag = "Ok"
    /\ pc = 0 \/ pc > Len(prog.val)
    /\ value' = v
    /\ out' = <<>>
    /\ datasize' = 0
    /\ pc' = 1
    /\ last' = NoCall
    /\ UNCHANGED <<def, prog, wire, buf, narrow>>

\* write_to runs its next statement
Step ==
    /\ pc >= 1
    /\ pc <= Len(prog.val)
    /\ LET s == prog.val[pc]
           b == StmtBytes(s, def, value, datasize)
       IN /\ out' = out \o [k \in 1..Len(b) |-> Put(b[k], s)]
          /\ datasize' = StmtDatasize(s, def, value, datasize)
    /\ pc' = pc + 1
    /\ UNCHANGED <<def, prog, value, rwvars>>

\* the write of the item write_to has come to returns an error, and the
\* `?` after it returns that error from write_to; what write_to has put
\* into the buffer before stays there
Fail ==
    /\ pc >= 1
    /\ pc <= Len(prog.val)
    /\ prog.val[pc].op = "element"
    /\ def.content[prog.val[pc].i].kind \in {"Field", "Let"}
    /\ pc' = Len(prog.val) + 2
    /\ last' = [NoCall EXCEPT !.op = "write_to", !.ty = def.name,
                              !.res = Err("WriteError"),
                              !.read = prog.val[pc].i]
    /\ UNCHANGED <<def, prog, value, out, datasize, wire, buf, narrow>>

\* write_to has returned Ok(())
Done == def # NoDef /\ prog.tag = "Ok" /\ pc = Len(prog.val) + 1

\* the bytes in the buffer
OutBytes == [k \in 1..Len(out) |-> out[k].byte]

----------------------------------------------------------------------------
(* The read procedures: read_from runs the items' reads from left to       *)
(* right; vals holds the values read so far, bound the items they are of   *)

RECURSIVE ReadNames(_, _, _, _, _)
\* <Vec<LengthString8> as ContextualReadable>::read_with(reader, count):
\* count names, each one length byte and that many bytes, read one after
\* the other; the first failure ends the read.  (The count is halved at
\* each step only to keep the evaluation shallow: the names are read in
\* the same order.)
ReadNames(b, pos, count, short, sofar) ==
    IF count = 0 THEN [res |-> Ok(sofar), pos |-> pos]
    ELSE IF count = 1
    THEN IF Len(b) - pos < 1 \/ Len(b) - pos - 1 < b[pos + 1]
         THEN [res |-> ShortRead(short), pos |-> pos]
         ELSE [res |-> Ok(Append(sofar,
                                 SubSeq(b, pos + 2, pos + 1 + b[pos + 1]))),
               pos |-> pos + 1 + b[pos + 1]]
    ELSE LET first == ReadNames(b, pos, count \div 2, short, sofar) IN
         IF first.res.tag # "Ok" THEN first
         ELSE ReadNames(b, first.pos, count - (count \div 2), short,
                        first.res.val)

\* <ty as Readable>::read_from(reader)
Type_read_from(ty, b, pos, short) ==
    IF ty.t = "enum"
    THEN LET r == Enum_read_from(ty, Drop(b, pos), short) IN
         [res |-> IF r.res.tag = "Ok" THEN Ok(r.res.val.variant - 1)
                  ELSE r.res,
          pos |-> pos + r.pos]
    ELSE IF ty.t = "WarpSourceDimension"
    THEN LET r == WarpSourceDimension_read_from(Drop(b, pos)) IN
         [res |-> r.res, pos |-> pos + r.pos]
    ELSE ReadInt(b, pos, ty.size, short)

\* the value of a formula on the read side: its argument is the value read
\* for the item it names; an item not read yet has no value
ReadSource(source, content, vals, bound, pos) ==
    IF source.fn = "const" THEN Ok(source.n)
    ELSE IF source.fn = "unit" THEN Ok(1)
    ELSE IF source.fn = "infer" THEN Ok(pad(pos))
    ELSE IF IndexOf(content, source.of) \notin bound THEN Err("unbound")
    ELSE IF source.fn = "from"                 \* usize::from(*names_len)
        THEN Ok(vals[IndexOf(content, source.of)])
    ELSE IF source.fn = "len"
        THEN Ok(Len(vals[IndexOf(content, source.of)]) % 256)
    ELSE IF source.fn = "pad"
        THEN Ok(pad(Len(NamesBytes(vals[IndexOf(content, source.of)]))))
    ELSE Ok(0)

\* DeserializeTokens for Field as it would be with the context left out:
\* the collection is read without a count and comes back empty
Field_deserialize_no_context(content, i, b, pos, vals, bound, short) ==
    LET e == content[i] IN
    IF e.context # NoSource
    THEN ReadNames(b, pos, 0, short, <<>>)
    ELSE Type_read_from(e.ty, b, pos, short)

\* DeserializeTokens for Field as it would be without the `?` after the
\* read: a failed read leaves the field at its default and the reads go on
Field_deserialize_or_default(content, i, b, pos, vals, bound, short) ==
    LET e == content[i]
        ctx == ReadSource(e.context, content, vals, bound, pos)
        r == IF e.context = NoSource THEN Type_read_from(e.ty, b, pos, short)
             ELSE IF ctx.tag # "Ok" THEN [res |-> ctx, pos |-> pos]
             ELSE ReadNames(b, pos, ctx.val, short, <<>>)
    IN IF r.res.tag = "Ok" THEN r
       ELSE [res |-> Ok(IF e.ty.t = "names" THEN <<>> ELSE 0), pos |-> pos]

\* DeserializeTokens for Field: with a context, read_with is given the
\* value of the context's formula; without one, read_from
Field_deserialize(content, i, b, pos, vals, bound, short) ==
    LET e == content[i] IN
    IF e.context # NoSource
    THEN LET ctx == ReadSource(e.context, content, vals, bound, pos) IN
         IF ctx.tag # "Ok" THEN [res |-> ctx, pos |-> pos]
         ELSE ReadNames(b, pos, ctx.val, short, <<>>)
    ELSE Type_read_from(e.ty, b, pos, short)

\* DeserializeTokens for Let as it would be with no read: the binding takes
\* the default of its type and the buffer is left where it is
Let_deserialize_default(content, i, b, pos, short) ==
    [res |-> Ok(0), pos |-> pos]

\* DeserializeTokens for Let: the value is read from the buffer
Let_deserialize(content, i, b, pos, short) ==
    ReadInt(b, pos, content[i].ty.size, short)

\* DeserializeTokens for Unused as it would be with the array form read as
\* the unit form: reader.advance(1) whatever the formula says
Unused_deserialize_unit_only(content, i, b, pos, vals, bound) ==
    IF Len(b) - pos < 1 THEN [res |-> Panic, pos |-> pos]
    ELSE [res |-> Ok(0), pos |-> pos + 1]

\* DeserializeTokens for Unused: reader.advance(1), or reader.advance(n)
\* with n the value of the formula; Buf::advance panics on a short buffer
Unused_deserialize(content, i, b, pos, vals, bound) ==
    LET n == ReadSource(content[i].source, content, vals, bound, pos) IN
    IF n.tag # "Ok" THEN [res |-> n, pos |-> pos]
    ELSE IF Len(b) - pos < n.val THEN [res |-> Panic, pos |-> pos]
    ELSE [res |-> Ok(0), pos |-> pos + n.val]

\* DeserializeTokens for Item
Item_deserialize(content, i, b, pos, vals, bound, short) ==
    IF content[i].kind = "Field"
    THEN Field_deserialize(content, i, b, pos, vals, bound, short)
    ELSE IF content[i].kind = "Let"
    THEN Let_deserialize(content, i, b, pos, short)
    ELSE Unused_deserialize(content, i, b, pos, vals, bound)

RECURSIVE items_from(_, _, _)
\* the loop `for (id, item) in self.items.pairs()`: the items from i on, in
\* declared order; with skip, those placed in the header are left out
items_from(content, i, skip) ==
    IF i > Len(content) THEN <<>>
    ELSE (IF skip /\ (content[i].metabyte \/ content[i].sequence) THEN <<>>
          ELSE <<Stmt("element", i)>>)
         \o items_from(content, i + 1, skip)

\* Struct::deserialize_tokens: every item, in declared order
Struct_deserialize(d) == items_from(d.content, 1, FALSE)

\* the reads of a message's header, in the order its write procedure puts
\* the header, and then the body items
Message_deserialize(d) ==
    LET m == metabyte_element(d.content)
        s == sequence_element(d.content)
        metabyte == IF d.minor # None \/ m = 0 THEN <<Stmt("skip", 1)>>
                    ELSE <<Stmt("element", m)>>
    IN (IF d.role = "Request"
        THEN <<Stmt("skip", 1)>> \o metabyte \o <<Stmt("skip", 2)>>
        ELSE IF d.role = "Reply"
        THEN <<Stmt("skip", 1)>> \o metabyte \o <<Stmt("element", s)>>
             \o <<Stmt("skip", 4)>>
        ELSE IF s # 0
        THEN <<Stmt("skip", 1)>> \o metabyte \o <<Stmt("element", s)>>
        ELSE <<Stmt("skip", 1)>>)
       \o items_from(d.content, 1, TRUE)

RECURSIVE RunRead(_, _, _, _, _, _, _)
\* read_from runs its statements; the first failure returns
RunRead(d, stmts, b, pos, vals, bound, short) ==
    IF stmts = <<>>
    THEN [res |-> IF \A i \in 1..Len(d.content) :
                        d.content[i].kind = "Unused" \/ i \in bound
                  THEN Ok(vals) ELSE Err("unread"),
          pos |-> pos]
    ELSE LET s == Head(stmts) IN
         IF s.op = "skip"
         THEN IF Len(b) - pos < s.i
              THEN [res |-> ShortRead(short), pos |-> pos]
              ELSE RunRead(d, Tail(stmts), b, pos + s.i, vals, bound, short)
         ELSE LET r == Item_deserialize(d.content, s.i, b, pos, vals, bound,
                                        short)
              IN IF r.res.tag # "Ok" THEN r
                 ELSE RunRead(d, Tail(stmts), b, r.pos,
                              [vals EXCEPT ![s.i] = r.res.val],
                              bound \cup {s.i}, short)

\* the generated read_from of Definition d on the bytes b
read_from(d, b, short) ==
    RunRead(d,
            IF d.role = "Struct" THEN Struct_deserialize(d)
            ELSE Message_deserialize(d),
            b, 0, [i \in 1..Len(d.content) |-> 0], {}, short)

\* read_from is called on the bytes write_to has put into the buffer
ReadFrom(short) ==
    /\ Done
    /\ last.op = "none"
    /\ LET r == read_from(def, OutBytes, short) IN
       last' = [NoCall EXCEPT !.op = "read_from", !.ty = def.name,
                              !.ser = TRUE, !.input = OutBytes,
                              !.res = r.res, !.read = r.pos]
    /\ UNCHANGED <<wire, buf, narrow, genvars>>

\* read_from is called when only the first n bytes of the message have
\* arrived
ReadPrefix(n, short) ==
    /\ Done
    /\ last.op = "none"
    /\ n < Len(out)
    /\ LET r == read_from(def, Take(OutBytes, n), short) IN
       last' = [NoCall EXCEPT !.op = "read_prefix", !.ty = def.name,
                              !.input = Take(OutBytes, n),
                              !.res = r.res, !.read = r.pos]
    /\ UNCHANGED <<wire, buf, narrow, genvars>>

----------------------------------------------------------------------------
(* The structure-level calls as actions                                    *)

NoBuf == [data |-> <<>>, cap |-> 0]

\* a caller calls s.serialize() and keeps the bytes it returns
Serialize(s) ==
    LET r == String_serialize(s, narrow) IN
    /\ last' = [NoCall EXCEPT !.op = "serialize", !.text = s, !.res = r]
    /\ wire' = IF r.tag = "Ok" THEN r.val ELSE <<>>
    /\ UNCHANGED <<buf, narrow, genvars>>

\* one more byte arrives in the slice the caller holds
Receive(b) ==
    /\ Len(wire) < MaxBytes
    /\ wire' = Append(wire, b)
    /\ last' = NoCall
    /\ UNCHANGED <<buf, narrow, genvars>>

\* the caller drops the slice
Discard ==
    /\ wire # <<>>
    /\ wire' = <<>>
    /\ last' = NoCall
    /\ UNCHANGED <<buf, narrow, genvars>>

\* a caller calls String::deserialize_bytes(wire)
DeserializeBytes ==
    LET r == deserialize_bytes(wire) IN
    /\ last' = [NoCall EXCEPT !.op = "deserialize_bytes",
                   !.text = IF last.op = "serialize" THEN last.text ELSE <<>>,
                   !.ser = (last.op = "serialize" /\ last.res.tag = "Ok"
                            /\ wire = last.res.val),
                   !.input = wire, !.res = r.res, !.read = r.read,
                   !.slice = r.slice]
    /\ wire' = r.slice
    /\ UNCHANGED <<buf, narrow, genvars>>

InitRW ==
    /\ GenIdle
    /\ wire = <<>>
    /\ buf = NoBuf
    /\ last = NoCall
    /\ narrow \in {"truncate", "error"}

NextRW ==
    \/ \E s \in Strings : Serialize(s)
    \/ \E b \in Bytes : Receive(b)
    \/ Discard
    \/ DeserializeBytes

\* the structure-level Serialize / Deserialize pair on Strings
SpecRW == InitRW /\ [][NextRW]_vars

\* a caller calls s.serialize_to(&mut buf)
SerializeTo(s) ==
    LET r == serialize_to(s, buf, narrow) IN
    /\ buf' = r.buf
    /\ last' = [NoCall EXCEPT !.op = "serialize_to", !.text = s,
                              !.res = r.res, !.before = buf.data]
    /\ UNCHANGED <<wire, narrow, genvars>>

\* the caller supplies a fresh destination with room for c bytes
NewBuf(c) ==
    /\ buf' = [data |-> <<>>, cap |-> c]
    /\ last' = NoCall
    /\ UNCHANGED <<wire, narrow, genvars>>

InitTo ==
    /\ GenIdle
    /\ wire = <<>>
    /\ buf \in [data : {<<>>}, cap : 0..MaxCap]
    /\ last = NoCall
    /\ narrow \in {"truncate", "error"}

NextTo ==
    \/ \E s \in Strings : SerializeTo(s)
    \/ \E c \in 0..MaxCap : NewBuf(c)

\* Serialize::serialize_to into a destination of bounded capacity
SpecTo == InitTo /\ [][NextTo]_vars

----------------------------------------------------------------------------
(* The value-level codecs of enums as a state machine                      *)

\* the values the u8 item of a variant is given
ItemBytes == {0, 7, 255}
\* the values of enum e: a variant and the values of its items
EnumValues(e) ==
    UNION {{[variant |-> i, items |-> its] :
               its \in [1..Len(e.variants[i].items) -> ItemBytes]} :
           i \in 1..Len(e.variants)}

\* the numbers Other(n) is given
Dimensions == {0, 1, 255, 256, 65535}
WarpSourceDimensions == {FillRemaining} \cup {Other(n) : n \in Dimensions}

\* v.write_to(&mut buf) on a value of enum e, with an empty buffer
EnumWriteTo(e, v) ==
    LET r == Enum_write_to(e, v) IN
    /\ last' = [NoCall EXCEPT !.op = "write_to", !.ty = e.name, !.val = v,
                              !.res = r]
    /\ wire' = r.val
    /\ UNCHANGED <<buf, narrow, genvars>>

\* E::read_from(&mut wire) for enum e, on a cursor over the slice
EnumReadFrom(e, short) ==
    LET r == Enum_read_from(e, wire, short)
        written == last.op = "write_to" /\ last.ty = e.name
                   /\ wire = last.res.val
    IN /\ last' = [NoCall EXCEPT !.op = "read_from", !.ty = e.name,
                       !.val = IF written THEN last.val ELSE NoValue,
                       !.ser = written, !.input = wire, !.res = r.res,
                       !.read = r.pos]
       /\ UNCHANGED <<wire, buf, narrow, genvars>>

\* v.write_to(&mut buf) on a WarpSourceDimension, with an empty buffer
WarpWriteTo(v) ==
    LET r == WarpSourceDimension_write_to(v) IN
    /\ last' = [NoCall EXCEPT !.op = "write_to",
                              !.ty = WarpSourceDimension.name, !.val = v,
                              !.res = r]
    /\ wire' = r.val
    /\ UNCHANGED <<buf, narrow, genvars>>

\* WarpSourceDimension::read_from(&mut wire)
WarpReadFrom ==
    LET r == WarpSourceDimension_read_from(wire)
        written == last.op = "write_to"
                   /\ last.ty = WarpSourceDimension.name
                   /\ wire = last.res.val
    IN /\ last' = [NoCall EXCEPT !.op = "read_from",
                       !.ty = WarpSourceDimension.name,
                       !.val = IF written THEN last.val ELSE FillRemaining,
                       !.ser = written, !.input = wire, !.res = r.res,
                       !.read = r.pos]
       /\ UNCHANGED <<wire, buf, narrow, genvars>>

InitCodec ==
    /\ GenIdle
    /\ wire = <<>>
    /\ buf = NoBuf
    /\ last = NoCall
    /\ narrow = "truncate"

NextCodec ==
    \/ \E e \in Enums : \E v \in EnumValues(e) : EnumWriteTo(e, v)
    \/ \E e \in Enums : \E short \in ShortReads : EnumReadFrom(e, short)
    \/ \E v \in WarpSourceDimensions : WarpWriteTo(v)
    \/ WarpReadFrom
    \/ \E b \in Bytes : Receive(b)
    \/ Discard

\* the write_to and read_from of enums and of WarpSourceDimension
SpecCodec == InitCodec /\ [][NextCodec]_vars

----------------------------------------------------------------------------
(* The layout compiler as a state machine                                  *)

Init ==
    /\ GenIdle
    /\ wire = <<>>
    /\ buf = NoBuf
    /\ last = NoCall
    /\ narrow = "truncate"

Next ==
    \/ \E d \in Definitions : Derive(d)
    \/ \E v \in Values(def) : WriteTo(v)
    \/ Step
    \/ Fail
    \/ \E short \in ShortReads : ReadFrom(short)
    \/ \E n \in 0..(Len(out) - 1) : \E short \in ShortReads :
          ReadPrefix(n, short)

\* the layout compiler and the write procedures it generates
Spec == Init /\ [][Next]_vars

----------------------------------------------------------------------------
(* ListExtensions with long lists of names                                 *)

\* the largest number of names in a list: one more than 256, the number
\* of values of the u8 that names_len is
MaxCount == 257

\* the numbers of names lists are given
NameCounts == {0, 1, 2, 255, 256, MaxCount}

\* lists of c empty names
LongNames == {[k \in 1..c |-> <<>>] : c \in NameCounts}

\* the values of Definition d with the lists of LongNames as their names
LongValues(d) ==
    {[i \in 1..Len(d.content) |->
        IF d.content[i].kind # "Field" THEN 0
        ELSE IF d.content[i].ty.t = "names" THEN names
        ELSE SeedValue(d.content[i].ty, i, seed)] :
     seed \in 0..MaxSeed, names \in LongNames}

\* the macro has expanded ListExtensions
InitNames ==
    /\ def = ListExtensions
    /\ prog = Definition_impl_writable(ListExtensions)
    /\ value = <<>>
    /\ out = <<>>
    /\ pc = 0
    /\ datasize = 0
    /\ wire = <<>>
    /\ buf = NoBuf
    /\ last = NoCall
    /\ narrow = "truncate"

NextNames ==
    \/ \E v \in LongValues(def) : WriteTo(v)
    \/ Step
    \/ \E short \in ShortReads : ReadFrom(short)

\* write_to and read_from of ListExtensions on lists of up to MaxCount names
SpecNames == InitNames /\ [][NextNames]_vars

----------------------------------------------------------------------------
(* Claims about the structure-level pair                                   *)

\* C1: for every String s whose byte length fits one byte, serialize(s)
\* returns the length byte len(s) followed by the bytes of s, and
\* deserialize_bytes of that output returns s.
C1_StringRoundTrip ==
    /\ (last.op = "serialize" /\ StrLen(last.text) <= 255)
          => last.res = Ok(<<StrLen(last.text)>> \o Utf8(last.text))
    /\ (last.op = "deserialize_bytes" /\ last.ser
        /\ StrLen(last.text) <= 255)
          => last.res = Ok(last.text)

\* C2: deserializing a String from a slice whose prefix byte is larger than
\* the number of bytes after it returns a ReadError: no truncated string,
\* no panic.
C2_ShortSliceIsReadError ==
    (/\ last.op = "deserialize_bytes"
     /\ Len(last.input) >= 1
     /\ last.input[1] > Len(last.input) - 1)
        => last.res.tag \notin {"Ok", "panic"}

\* C3: serialize_to checks the capacity before it writes: with less room
\* than the serialized length it returns CapacityTooLow and the destination
\* is unchanged, otherwise it appends exactly the bytes of serialize().
C3_SerializeToChecksCapacity ==
    last.op = "serialize_to" =>
        LET data == String_serialize(last.text, narrow)
            room == buf.cap - Len(last.before)
        IN data.tag = "Ok" =>
              IF room < Len(data.val)
              THEN last.res = Err("CapacityTooLow") /\ buf.data = last.before
              ELSE last.res = Ok(<<>>)
                   /\ buf.data = last.before \o data.val

\* serialize_to refused a String for which a destination that already
\* holds bytes had too little room left
C3_Witness ==
    /\ last.op = "serialize_to"
    /\ last.res = Err("CapacityTooLow")
    /\ last.before # <<>>
    /\ Len(last.before) < buf.cap

\* C4: deserialize_bytes reads only the bytes the value needs: never more
\* than 1 + n bytes for prefix byte n, exactly 1 + n whenever it returns,
\* the result is the same whatever follows those bytes, and the caller's
\* slice is not advanced.
C4_ReadsOnlyWhatItNeeds ==
    last.op = "deserialize_bytes" =>
        /\ wire = last.input
        /\ last.read <= Len(last.input)
        /\ last.input # <<>> => last.read <= 1 + last.input[1]
        /\ last.res.tag # "panic" =>
              /\ last.read = 1 + last.input[1]
              /\ deserialize_bytes(Take(last.input, last.read)).res = last.res
              /\ \A t \in Bytes :
                    deserialize_bytes(Take(last.input, last.read) \o <<t>>).res
                        = last.res

\* a String of at least one char was read from a slice with trailing bytes
C4_Witness ==
    /\ last.op = "deserialize_bytes"
    /\ last.res.tag = "Ok"
    /\ last.read >= 2
    /\ Len(last.input) > last.read

\* a char: a Unicode scalar value
IsChar(c) == c >= 0 /\ c <= 1114111 /\ ~(c >= 55296 /\ c <= 57343)

\* b is well-formed UTF-8: it is the encoding of some sequence of chars
ValidUtf8(b) ==
    LET at == {p \in (1..Len(b)) \X (1..4) : p[1] + p[2] - 1 <= Len(b)}
        cand == {c \in {Utf8Decode(SubSeq(b, p[1], p[1] + p[2] - 1), p[2]) :
                           p \in at} : IsChar(c)}
    IN \E s \in SeqsUpTo(cand, Len(b)) : Utf8(s) = b

\* C5: when the n bytes after the prefix n are there, deserialize returns
\* a String exactly when they are well-formed UTF-8 (the String they
\* encode) and InvalidData when they are not.
C5_InvalidDataIffNotUtf8 ==
    (/\ last.op = "deserialize_bytes"
     /\ Len(last.input) >= 1
     /\ Len(last.input) >= 1 + last.input[1])
        => LET body == SubSeq(last.input, 2, 1 + last.input[1]) IN
           IF ValidUtf8(body)
           THEN last.res.tag = "Ok" /\ Utf8(last.res.val) = body
           ELSE last.res = Err("InvalidData")

\* InvalidData was returned for a body that is all there
C5_Witness ==
    /\ last.op = "deserialize_bytes"
    /\ last.res = Err("InvalidData")
    /\ last.read = Len(last.input)
    /\ last.read >= 3

----------------------------------------------------------------------------
(* Claims about the generated write procedures                             *)

\* the statement that put byte k is the write of a body element
IsBody(k) ==
    /\ out[k].op = "element"
    /\ ~def.content[out[k].i].metabyte
    /\ ~def.content[out[k].i].sequence

\* the statement that put byte k is the one in the metabyte position
IsMetabytePosition(k) ==
    \/ out[k].op \in {"put_zero", "put_minor_opcode"}
    \/ out[k].op = "element" /\ def.content[out[k].i].metabyte

\* the big-endian number in the n bytes of out from k on
RECURSIVE NumberAt(_, _)
NumberAt(k, n) ==
    IF n = 0 THEN 0 ELSE NumberAt(k, n - 1) * 256 + out[k + n - 1].byte

\* the one-byte encoding of the #[metabyte] element m of the value
MetabyteOf(m) ==
    IF def.content[m].kind = "Field" THEN value[m]
    ELSE Len(value[IndexOf(def.content, def.content[m].source.of)]) % 256

\* C6: the write procedure of a Request emits the major opcode byte, one
\* byte for the metabyte position, the two bytes of Request::length(), and
\* only then the body items.
C6_RequestHeaderOrder ==
    def.role = "Request" =>
        /\ \A k \in 1..Len(out) :
              /\ k = 1 => out[k].op = "put_major_opcode"
                          /\ out[k].byte = def.code
              /\ k = 2 => IsMetabytePosition(k)
              /\ k \in {3, 4} => out[k].op = "put_length_u16"
              /\ k > 4 => IsBody(k)
        /\ Len(out) >= 4 => NumberAt(3, 2) = Request_length(def, value)
        /\ Done => Len(out) >= 4

\* a Request with a metabyte field and body fields has been written
C6_Witness ==
    /\ Done
    /\ def.role = "Request"
    /\ metabyte_element(def.content) # 0
    /\ Len(out) > 4
    /\ out[2].byte # 0

\* the second header byte is the metabyte element's encoding, or 0 when no
\* element is marked #[metabyte]
SecondByteIsMetabyte ==
    Len(out) >= 2 =>
        out[2].byte = IF metabyte_element(def.content) # 0
                      THEN MetabyteOf(metabyte_element(def.content))
                      ELSE 0

\* C7 as stated: for every Request, Reply and sequence-bearing Event the
\* second header byte is the #[metabyte] item's encoding, or 0 without
\* such an item.
C7_MetabyteExclusivity ==
    (\/ def.role \in {"Request", "Reply"}
     \/ def.role = "Event" /\ sequence_element(def.content) # 0)
        => SecondByteIsMetabyte

\* C7 as amended: the same for every Request that declares no minor opcode,
\* every Reply and every sequence-bearing Event.
C7_MetabyteExclusivityNoMinor ==
    (\/ def.role = "Request" /\ def.minor = None
     \/ def.role = "Reply"
     \/ def.role = "Event" /\ sequence_element(def.content) # 0)
        => SecondByteIsMetabyte

\* a Reply whose metabyte element is not zero has been written
C7_Witness ==
    /\ Done
    /\ def.role = "Reply"
    /\ metabyte_element(def.content) # 0
    /\ out[2].byte # 0

\* C8: for every Request value the 16-bit length in the header times 4 is
\* the number of bytes write_to emits, and is at least 1; GrabServer has
\* length 1 and UngrabCursor has length 2.
C8_RequestLengthUnits ==
    (Done /\ def.role = "Request") =>
        /\ NumberAt(3, 2) * 4 = Len(out)
        /\ NumberAt(3, 2) >= 1
        /\ def = GrabServer => NumberAt(3, 2) = 1
        /\ def = UngrabCursor => NumberAt(3, 2) = 2

\* UngrabCursor has been written with a time that is not zero
C8_Witness ==
    /\ Done
    /\ def = UngrabCursor
    /\ Len(out) = 8
    /\ value[1] # 0

\* C9: the write procedure of a Reply emits the byte 1, one byte for the
\* metabyte position, the two bytes of the #[sequence] field, the four
\* bytes of Reply::length(), and only then the body items.
C9_ReplyHeaderOrder ==
    def.role = "Reply" =>
        /\ \A k \in 1..Len(out) :
              /\ k = 1 => out[k].op = "put_one" /\ out[k].byte = 1
              /\ k = 2 => IsMetabytePosition(k)
              /\ k \in {3, 4} =>
                    /\ out[k].op = "sequence"
                    /\ def.content[out[k].i].sequence
              /\ k \in 5..8 => out[k].op = "put_length_u32"
              /\ k > 8 => IsBody(k)
        /\ Len(out) >= 4 =>
              NumberAt(3, 2) = value[sequence_element(def.content)]
        /\ Len(out) >= 8 =>
              <<out[5].byte, out[6].byte, out[7].byte, out[8].byte>>
                  = BE(Reply_length(def, value), 4)
        /\ Done => Len(out) >= 8

\* a Reply with a sequence number that is not zero has been written, body
\* included
C9_Witness ==
    /\ Done
    /\ def.role = "Reply"
    /\ Len(out) > 8
    /\ value[sequence_element(def.content)] > 256

\* C10: every Reply value, QueryExtension and ListExtensions included, is
\* at least 32 bytes long and its 32-bit header length times 4 is the
\* encoded length minus 32.
C10_ReplyLengthUnits ==
    (Done /\ def.role = "Reply") =>
        /\ Len(out) >= 32
        /\ NumberAt(5, 4) * 4 = Len(out) - 32

\* C11: every Request of x11/request/input.rs and every Reply of
\* x11/reply/meta.rs is written, for every value, as a number of bytes that
\* is a multiple of 4.
C11_AlignmentLaw ==
    (Done /\ def \in InputRequests \cup MetaReplies) => Len(out) % 4 = 0

\* a ListExtensions whose names do not fill a multiple of 4 bytes has been
\* written
C11_Witness ==
    /\ Done
    /\ def = ListExtensions
    /\ Len(NamesBytes(value[4])) % 4 # 0

\* C12: the write procedure of an Event emits the event code first; then
\* the byte of the metabyte position and the two bytes of the sequence
\* field exactly when the definition has a #[sequence] item; without one
\* the body items follow the code byte at once.
C12_EventHeader ==
    def.role = "Event" =>
        /\ \A k \in 1..Len(out) :
              /\ k = 1 => out[k].op = "put_code" /\ out[k].byte = def.code
              /\ IF sequence_element(def.content) # 0
                 THEN /\ k = 2 => IsMetabytePosition(k)
                      /\ k \in {3, 4} =>
                            /\ out[k].op = "sequence"
                            /\ def.content[out[k].i].sequence
                      /\ k > 4 => IsBody(k)
                 ELSE k > 1 => IsBody(k)
        /\ (sequence_element(def.content) # 0 /\ Len(out) >= 4) =>
              NumberAt(3, 2) = value[sequence_element(def.content)]
        /\ Done => Len(out) >= IF sequence_element(def.content) # 0
                               THEN 4 ELSE 1

\* an Event without a sequence item has been written, body included
C12_Witness ==
    /\ Done
    /\ def.role = "Event"
    /\ sequence_element(def.content) = 0
    /\ Len(out) > 1
    /\ out[2].byte # 0

\* the bytes element i of the definition has put into the buffer
BytesOf(i) == {k \in 1..Len(out) : out[k].op \in {"element", "sequence"}
                                    /\ out[k].i = i}

\* the bytes before the body: the ones of the role's header
HeaderLen ==
    IF def.role = "Request" THEN 4
    ELSE IF def.role = "Reply" THEN 8
    ELSE IF def.role = "Event"
        THEN IF sequence_element(def.content) # 0 THEN 4 ELSE 1
    ELSE 0

\* C13: in a Request, Reply or Event the body items are written in
\* declared order after the header, and the #[metabyte] item and the
\* #[sequence] item are written once, in the header, and not in the body;
\* in a plain record every item is written in declared order and there are
\* no header bytes.
C13_BodyOrder ==
    def.role \in {"Struct", "Request", "Reply", "Event"} =>
        /\ \A k, l \in 1..Len(out) :
              (k < l /\ k > HeaderLen) =>
                  /\ out[k].op = "element" /\ out[l].op = "element"
                  /\ out[k].i <= out[l].i
        /\ def.role = "Struct" => \A k \in 1..Len(out) : out[k].op = "element"
        /\ Done =>
              \A i \in 1..Len(def.content) :
                  IF def.role # "Struct"
                     /\ (def.content[i].metabyte \/ def.content[i].sequence)
                  THEN /\ BytesOf(i) # {}
                       /\ \A k \in BytesOf(i) : k <= HeaderLen
                       /\ Cardinality(BytesOf(i)) = def.content[i].ty.size
                  ELSE /\ \A k \in BytesOf(i) : k > HeaderLen
                       /\ (def.content[i].kind # "Unused"
                           /\ def.content[i].ty.t # "names")
                             => Cardinality(BytesOf(i))
                                   = def.content[i].ty.size

----------------------------------------------------------------------------
(* Claims about enums and sentinel-coded types                             *)

\* the enum called name
EnumNamed(name) == CHOOSE e \in Enums : e.name = name
IsEnumCall == \E e \in Enums : e.name = last.ty

RECURSIVE Assigned(_, _)
\* the discriminant of variant i of e by the rule: the explicit one, else 0
\* for the first variant, else one more than the variant before
Assigned(e, i) ==
    IF e.variants[i].discriminant # <<>> THEN Eval(e.variants[i].discriminant)
    ELSE IF i = 1 THEN 0
    ELSE Assigned(e, i - 1) + 1

\* C14: discriminants are assigned in declaration order (0 for the first
\* variant, the explicit value where one is given, else the previous one
\* plus 1), and write_to and read_from both use that assignment.
C14_DiscriminantAssignment ==
    IsEnumCall =>
        LET e == EnumNamed(last.ty) IN
        /\ last.op = "write_to" =>
              last.res.val[1] = Assigned(e, last.val.variant)
        /\ (last.op = "read_from" /\ last.res.tag = "Ok") =>
              last.input[1] = Assigned(e, last.res.val.variant)

\* C15: reading an enum from a buffer whose first byte is the discriminant
\* of no variant returns the read error UnrecognizedDiscriminant; it does
\* not panic.
C15_UnrecognizedDiscriminant ==
    (/\ IsEnumCall
     /\ last.op = "read_from"
     /\ Len(last.input) >= 1
     /\ \A v \in EnumValues(EnumNamed(last.ty)) :
           Enum_write_to(EnumNamed(last.ty), v).val[1] # last.input[1])
        => last.res.tag = "UnrecognizedDiscriminant"

\* e gives none of its variants an explicit discriminant
Implicit(e) == \A i \in 1..Len(e.variants) : e.variants[i].discriminant = <<>>

\* C16: for an enum with implicit discriminants, write_to emits the
\* position of the variant (from 0) as one byte and then the variant's
\* items, and read_from of those bytes returns the same variant.
C16_EnumRoundTrip ==
    (IsEnumCall /\ Implicit(EnumNamed(last.ty))) =>
        LET e == EnumNamed(last.ty) IN
        /\ last.op = "write_to" =>
              /\ last.res.tag = "Ok"
              /\ last.res.val = <<last.val.variant - 1>> \o last.val.items
        /\ (last.op = "read_from" /\ last.ser) =>
              /\ last.res.tag = "Ok"
              /\ last.res.val = last.val
              /\ last.read = Len(last.input)

\* the last variant of RevertFocus has been written and read back
C16_Witness ==
    /\ last.op = "read_from"
    /\ last.ser
    /\ last.ty = "RevertFocus"
    /\ last.val.variant = 3
    /\ last.input = <<2>>

\* C17: for every WarpSourceDimension v, FillRemaining and Other(n) for
\* every 16-bit n, read_from of the bytes of write_to(v) returns v.
C17_WarpSourceDimensionRoundTrip ==
    (/\ last.op = "read_from"
     /\ last.ty = WarpSourceDimension.name
     /\ last.ser)
        => last.res.tag = "Ok" /\ last.res.val = last.val

\* C18: sentinel-coded types add no bytes: a WarpSourceDimension reports
\* size 2 and is written as exactly 2 bytes, the number itself, whether it
\* is FillRemaining or Other(n); GrabCursor has the same encoded size
\* whether its Option fields are Some or None.
C18_SentinelNoOverhead ==
    /\ (Done /\ def = WarpCursor) =>
          \A i \in {4, 5} :
              /\ Cardinality(BytesOf(i)) = 2
              /\ WarpSourceDimension_x11_size(value[i]) = 2
              /\ \A k \in BytesOf(i) :
                    (k + 1 \in BytesOf(i)) =>
                        NumberAt(k, 2) = IF value[i].variant = "FillRemaining"
                                         THEN 0 ELSE value[i].n
    /\ (Done /\ def = GrabCursor) =>
          /\ Len(out) = 24
          /\ Cardinality(BytesOf(6)) = 4
          /\ Cardinality(BytesOf(7)) = 4

\* a WarpCursor whose source_width is Other(n) has been written
C18_Witness ==
    /\ Done
    /\ def = WarpCursor
    /\ value[4].variant = "Other"
    /\ value[5].variant = "Other"

----------------------------------------------------------------------------
(* Claims about formulas and contexts                                      *)

\* the item a formula names comes before item i
RefsEarlier(content, i, source) ==
    source.of # "" => IndexOf(content, source.of) < i

\* C19 as stated: in every definition each Source formula (of a Let or of
\* an Unused run) and each Context formula references only items that
\* appear earlier in the item sequence.
C19_NoForwardReferences ==
    \A i \in 1..Len(def.content) :
        /\ RefsEarlier(def.content, i, def.content[i].source)
        /\ RefsEarlier(def.content, i, def.content[i].context)

\* C19 as amended: each Context formula and each Source formula of an
\* Unused run references only earlier items, and read_from never needs
\* the value of an item it has not read yet; the Source formula of a Let is
\* left out, it is evaluated by write_to only.
C19_NoForwardReferencesOnRead ==
    /\ \A i \in 1..Len(def.content) :
          /\ def.content[i].kind # "Let" =>
                RefsEarlier(def.content, i, def.content[i].source)
          /\ RefsEarlier(def.content, i, def.content[i].context)
    /\ last.op = "read_from" => last.res.tag # "unbound"
    /\ (last.op = "read_from" /\ def = ListExtensions) =>
          /\ last.res.tag = "Ok"
          /\ last.read = Len(last.input)

\* a ListExtensions with two names has been written and read back
C19_Witness ==
    /\ last.op = "read_from"
    /\ def = ListExtensions
    /\ Len(value[4]) = 2
    /\ last.res.tag = "Ok"

\* C20: a field with a Context formula is read with the value of the
\* formula over the items read before it; for a collection this is the
\* count its Let wrote: ListExtensions reads exactly names_len names, with
\* names_len the metabyte of the header, and they are the names written.
C20_ContextIsTheCountWritten ==
    last.op = "read_from" =>
        /\ last.res.tag = "Ok" =>
              \A i \in 1..Len(def.content) :
                  def.content[i].context # NoSource =>
                      LET c == IndexOf(def.content, def.content[i].context.of)
                      IN /\ c < i
                         /\ Len(last.res.val[i]) = last.res.val[c]
                         /\ \A k \in BytesOf(c) :
                               out[k].byte = last.res.val[c]
                         /\ last.res.val[i] = value[i]
        /\ def = ListExtensions =>
              /\ last.res.tag = "Ok"
              /\ last.res.val[2] = out[2].byte
              /\ Len(last.res.val[4]) = out[2].byte
              /\ last.read = Len(last.input)

\* a ListExtensions with names has been read back: names_len is not zero
C20_Witness ==
    /\ last.op = "read_from"
    /\ def = ListExtensions
    /\ last.res.tag = "Ok"
    /\ out[2].byte = 2
    /\ Len(last.res.val[4]) = 2

----------------------------------------------------------------------------
(* Claims about failures                                                   *)

\* the first of the bytes of out that the statement of byte k has put
StartOf(k) ==
    CHOOSE j \in 1..k :
        /\ \A h \in j..k : out[h].op = out[k].op /\ out[h].i = out[k].i
        /\ j > 1 => (out[j - 1].op # out[k].op \/ out[j - 1].i # out[k].i)

C22_WriteAllOrNothing ==
    (/\ last.op = "write_to"
     /\ last.ty = def.name
     /\ last.res.tag # "Ok")
        => out = <<>>

----------------------------------------------------------------------------
(* Claims about Let and Unused items                                       *)

\* the Let items of the definition
Lets == {i \in 1..Len(def.content) : def.content[i].kind = "Let"}

\* the first of the bytes item i has put into the buffer
FirstOf(i) == CHOOSE k \in BytesOf(i) : \A h \in BytesOf(i) : k <= h

\* the value of the formula of Let i over the sibling fields, as the
\* definition states it: `names => names.len() as u8`
LetValue(i) ==
    Len(value[IndexOf(def.content, def.content[i].source.of)]) % 256

Unuseds == {i \in 1..Len(def.content) : def.content[i].kind = "Unused"}

\* the bytes in the buffer that items declared before item i, and the
\* header, have put there
Before(i) ==
    Cardinality({k \in 1..Len(out) :
                    ~(out[k].op = "element" /\ out[k].i >= i)})

\* the number of bytes Unused item i stands for, as its declaration says:
\* `_` is 1, `[_; n]` is n, `[_; names => pad(names)]` pads the encoding of
\* names to a multiple of 4, `[_; ..]` pads what precedes it
UnusedCount(i) ==
    LET source == def.content[i].source IN
    IF source.fn = "unit" THEN 1
    ELSE IF source.fn = "const" THEN source.n
    ELSE IF source.fn = "pad"
        THEN (4 - (Len(NamesBytes(value[IndexOf(def.content, source.of)])) % 4))
                 % 4
    ELSE (4 - (Before(i) % 4)) % 4

\* C24: an Unused item writes only zero bytes, one for the unit form and k
\* for the array form, k being the value of its formula; read_from skips
\* the same number of bytes: it reads back every field as it was written
\* and ends at the end of the message.
C24_UnusedZeroBytes ==
    /\ Done =>
          \A i \in Unuseds :
              /\ \A k \in BytesOf(i) : out[k].byte = 0
              /\ Cardinality(BytesOf(i)) = UnusedCount(i)
    /\ (last.op = "read_from" /\ Unuseds # {} /\ last.res.tag # "unread") =>
          /\ last.res.tag = "Ok"
          /\ last.read = Len(last.input)
          /\ \A i \in 1..Len(def.content) :
                def.content[i].kind = "Field" => last.res.val[i] = value[i]

\* a ListExtensions whose names are followed by two unused bytes has been
\* written and read back
C24_Witness ==
    /\ last.op = "read_from"
    /\ def = ListExtensions
    /\ last.res.tag = "Ok"
    /\ Cardinality(BytesOf(3)) = 24
    /\ Cardinality(BytesOf(5)) = 2

----------------------------------------------------------------------------
(* Claims about the running byte count                                     *)

\* C25: in a write procedure with a size-inferred item, datasize starts at
\* the number of header bytes of the role (0 for a plain record, 4 for a
\* Request, 8 for a Reply, 4 for an Event with a sequence item, 1 for an
\* Event without), the header written is that many bytes, and after each
\* body item has been written and counted datasize is the number of bytes
\* written so far.
C25_RunningByteCount ==
    (contains_infer(def.content) /\ pc >= 2 /\ pc <= Len(prog.val) + 1) =>
        /\ prog.val[1].op = "declare_datasize"
        /\ pc = 2 =>
              datasize = IF def.role = "Struct" THEN 0
                         ELSE IF def.role = "Request" THEN 4
                         ELSE IF def.role = "Reply" THEN 8
                         ELSE IF sequence_element(def.content) # 0 THEN 4
                         ELSE 1
        /\ Len(out) <= HeaderLen => datasize = HeaderLen
        /\ prog.val[pc - 1].op = "add_datasize" => datasize = Len(out)
        /\ Done => datasize = Len(out)

\* a Reply with an inferred unused run has been written: the run is not
\* empty and the count has passed the 8 bytes of the header
C25_Witness ==
    /\ Done
    /\ def = NamesReply
    /\ datasize > 32
    /\ Cardinality(BytesOf(5)) > 0

----------------------------------------------------------------------------
(* Claims about the layout compiler as a whole                             *)

\* C26: the layout compiler produces a write procedure for every kind of
\* Definition without aborting: for a plain record, a Request, a Reply, an
\* Event, and for an enum.
C26_CompilesEveryKind ==
    def # NoDef =>
        /\ prog.tag = "Ok"
        /\ def.role = "Enum" => prog.val # <<>>

\* the statements of the write procedure that write item i
WritesOf(i) ==
    {p \in 1..Len(prog.val) :
        prog.val[p].op \in {"element", "sequence"} /\ prog.val[p].i = i}

\* C27: every declared Field and Let of a Request, Reply or Event is
\* written exactly once by the generated write procedure, in the header or
\* in the body, also a #[metabyte] item of a Request with a minor opcode
\* and of an Event without a sequence item.
C27_EveryItemWrittenOnce ==
    (def.role \in {"Request", "Reply", "Event"} /\ prog.tag = "Ok") =>
        \A i \in 1..Len(def.content) :
            def.content[i].kind \in {"Field", "Let"} =>
                /\ Cardinality(WritesOf(i)) = 1
                /\ (Done /\ def.content[i].ty.t # "names") =>
                      Cardinality(BytesOf(i)) = def.content[i].ty.size

\* C28: for a Request that declares a minor opcode the second header byte
\* written is the minor opcode, whether or not an item is marked
\* #[metabyte]; a Request without a minor opcode writes its #[metabyte]
\* item, or 0, there.
C28_MinorOpcodeInSecondByte ==
    (def.role = "Request" /\ Len(out) >= 2) =>
        IF def.minor # None
        THEN out[2].op = "put_minor_opcode" /\ out[2].byte = def.minor
        ELSE /\ out[2].op # "put_minor_opcode"
             /\ SecondByteIsMetabyte

\* a Request with a minor opcode and a #[metabyte] field that is not zero
\* has been written
C28_Witness ==
    /\ Done
    /\ def = ExtensionRequestMetabyte
    /\ value[1] # 0
    /\ out[2].byte = 6

----------------------------------------------------------------------------
(* Claims about the discriminants on the wire                              *)

\* C29: within one enum the discriminant bytes written for distinct
\* variants are pairwise distinct, explicit discriminants and the cast to
\* one byte included, and read_from of the bytes of a variant selects that
\* variant.
C29_DistinctDiscriminants ==
    IsEnumCall =>
        LET e == EnumNamed(last.ty) IN
        /\ last.op = "write_to" =>
              \A v \in EnumValues(e) :
                  v.variant # last.val.variant =>
                      Enum_write_to(e, v).val[1] # last.res.val[1]
        /\ (last.op = "read_from" /\ last.ser) =>
              /\ last.res.tag = "Ok"
              /\ last.res.val.variant = last.val.variant

----------------------------------------------------------------------------
(* Claims about the count of a list                                        *)

\* C30: for every ListExtensions value, whatever the number of its names,
\* the names_len byte written in the metabyte position is the number of
\* names, and read_from of the written bytes returns all the names.
C30_NamesLenIsTheCount ==
    def = ListExtensions =>
        /\ Done => out[2].byte = Len(value[4])
        /\ last.op = "read_from" =>
              /\ last.res.tag = "Ok"
              /\ last.res.val[4] = value[4]
              /\ last.read = Len(last.input)

====
